---- MODULE Spec2Model ----
(***************************************************************************)
(* Admission workflow of app.py: public registration, the admin session    *)
(* gate, approve / reject of an applicant row, and the email / SMS         *)
(* notifications that follow each commit.                                  *)
(*                                                                         *)
(* A handler that touches the database more than once is split at its     *)
(* database accesses (read, commit, reload-and-notify) and runs in one of  *)
(* the request slots of Workers, so that requests served concurrently      *)
(* interleave exactly at those points.  A request that only reads answers  *)
(* in one step, from one snapshot of the table, and needs no slot.         *)
(***************************************************************************)
EXTENDS Integers, Sequences, FiniteSets, Bags, TLC

\* ---------------------------------------------------------------- bounds
\* A registration is admitted only while fewer than MaxApplicants rows are
\* stored.  A state-changing request (a valid registration, an approve or
\* reject of an existing row) is admitted only while fewer than MaxEmails
\* emails have been attempted or are still owed by requests in flight.
MaxApplicants == 2
MaxEmails == 3

Workers == {"w1", "w2"}          \* request slots served concurrently
Sessions == {"s1", "s2"}         \* browser sessions (one cookie each)

\* ------------------------------------------------------- python values
\* A str is a sequence of one-character strings; None is a value that is
\* no str over Chars.
None == <<"None">>
Whitespace == {" "}

\* `not x` for x a str or None
Falsy(x) == x = None \/ x = <<>>

RECURSIVE lstrip(_)
lstrip(s) == IF s # <<>> /\ Head(s) \in Whitespace THEN lstrip(Tail(s)) ELSE s

RECURSIVE rstrip(_)
rstrip(s) ==
    IF s # <<>> /\ s[Len(s)] \in Whitespace
    THEN rstrip(SubSeq(s, 1, Len(s) - 1))
    ELSE s

\* str.strip()
strip(s) == rstrip(lstrip(s))

\* `x.strip() if x else None`
strip_or_none(x) == IF Falsy(x) THEN None ELSE strip(x)

\* ------------------------------------------------------- configuration
ADMIN_USERNAME == "admin"
ADMIN_PASSWORD == "adminpass"

\* ---------------------------------------------------------- input sets
NameInputs == {None, <<>>, <<" ">>, <<" ", "a">>}
EmailInputs == {None, <<>>, <<"e", " ">>}
PhoneInputs == {None, <<"5", " ">>}
CourseInputs == {<<"c", " ">>}
AddressInputs == {None}
NoteInputs == {<<>>, <<"o", "k">>}
Usernames == {"admin", "root"}
Passwords == {"adminpass", "guess"}
Forms ==
    [full_name : NameInputs, email : EmailInputs, phone : PhoneInputs,
     course : CourseInputs, address : AddressInputs]

VARIABLES
    applicants,   \* the applicant table: rows in insertion order
    now,          \* the clock datetime.utcnow reads
    session,      \* session[s]: does s's cookie carry admin_logged_in
    req,          \* req[w]: the request slot w is serving
    outbox,       \* bag of the send_email / send_sms calls made so far
    resp          \* the response the last step returned (NoResp: none)

vars == <<applicants, now, session, req, outbox, resp>>

\* ---------------------------------------------------------------- table
Ids == {applicants[i].id : i \in 1..Len(applicants)}

\* Applicant.query.get: the row with primary key id
Row(id) == CHOOSE i \in 1..Len(applicants) : applicants[i].id = id
get(id) == applicants[Row(id)]

\* NextId without the increment: the largest key in use is given again
NextId_stale == IF applicants = <<>> THEN 1
                ELSE CHOOSE m \in Ids : \A j \in Ids : j <= m

\* The rowid SQLite gives an INTEGER PRIMARY KEY on insert
NextId == IF applicants = <<>> THEN 1
          ELSE 1 + (CHOOSE m \in Ids : \A j \in Ids : j <= m)

\* Applicant(...) as register builds it, with the column defaults the
\* INSERT fills in
Applicant(form, id, t) ==
    [id |-> id,
     full_name |-> strip(form.full_name),
     email |-> strip(form.email),
     phone |-> strip_or_none(form.phone),
     course |-> strip_or_none(form.course),
     address |-> strip_or_none(form.address),
     status |-> "pending",
     created_at |-> t,
     admin_note |-> None]

\* ------------------------------------------------------------- requests
Idle == [op |-> "none", pc |-> "idle", sess |-> "none", id |-> 0,
         status |-> "none", note |-> None, loaded |-> <<>>]

NoResp == [op |-> "none", sess |-> "none", id |-> 0, result |-> "none",
           mail |-> "none", sms |-> "none", body |-> <<>>]

InFlight == Cardinality({w \in Workers : req[w].pc # "idle"})

EmailCalls ==
    LET E == {e \in BagToSet(outbox) : e.channel = "email"}
        RECURSIVE Sum(_)
        Sum(S) == IF S = {} THEN 0
                  ELSE LET e == CHOOSE x \in S : TRUE
                       IN CopiesIn(e, outbox) + Sum(S \ {e})
    IN Sum(E)

\* room for one more state-changing request
Room == EmailCalls + InFlight < MaxEmails

Respond(op, s, id, result, mail, sms, body) ==
    resp' = [op |-> op, sess |-> s, id |-> id, result |-> result,
             mail |-> mail, sms |-> sms, body |-> body]

Init ==
    /\ applicants = <<>>
    /\ now = 0
    /\ session = [s \in Sessions |-> FALSE]
    /\ req = [w \in Workers |-> Idle]
    /\ outbox = EmptyBag
    /\ resp = NoResp

\* ------------------------------------------------------------- register
\* Valid with the email left unchecked
Valid_name_only(full_name, email) == ~Falsy(full_name)

\* the check `if not full_name or not email` passes
Valid(full_name, email) == ~(Falsy(full_name) \/ Falsy(email))

\* the flash 'Name and email are required.' and the redirect back
RegisterInvalid(full_name, email) ==
    /\ ~Valid(full_name, email)
    /\ Respond("submit", "none", 0, "validation_error", "none", "none", <<>>)
    /\ UNCHANGED <<applicants, now, session, req, outbox>>

\* POST /register up to db.session.commit()
RegisterCommit(w, form) ==
    /\ req[w].pc = "idle"
    /\ Valid(form.full_name, form.email)
    /\ Len(applicants) < MaxApplicants
    /\ Room
    /\ now' = now + 1
    /\ applicants' = Append(applicants, Applicant(form, NextId, now'))
    /\ req' = [req EXCEPT ![w] = [Idle EXCEPT !.op = "submit", !.pc = "notify",
                                              !.id = NextId, !.status = "received"]]
    /\ resp' = NoResp
    /\ UNCHANGED <<session, outbox>>

\* -------------------------------------------------------- notifications
\* What the mail relay / the Twilio client is when a send is attempted
Providers == {"unconfigured", "unreachable", "up"}

\* send_email without its try / except: a delivery failure escapes
send_email_raising(provider) ==
    CASE provider = "unconfigured" -> "skipped"
      [] provider = "unreachable" -> "raised"
      [] OTHER -> "sent"

\* send_email: the log line it ends with (it returns True only on "sent")
send_email(provider) ==
    CASE provider = "unconfigured" -> "skipped"
      [] provider = "unreachable" -> "failed"
      [] OTHER -> "sent"

\* send_sms, likewise
send_sms(provider) ==
    CASE provider = "unconfigured" -> "skipped"
      [] provider = "unreachable" -> "failed"
      [] OTHER -> "sent"

Call(channel, kind, a, to) ==
    SetToBag({[channel |-> channel, kind |-> kind, id |-> a.id, to |-> to]})

\* What the view function returns once both helpers are back; an exception
\* that escaped a helper would end the request with a server error.
Outcome(mail, sms) ==
    IF mail = "raised" \/ sms = "raised" THEN "server_error" ELSE "success"

\* Notify without the `if a.phone:` test: the SMS is always attempted
Notify_sms_unguarded(w, mp, sp) ==
    /\ req[w].pc = "notify"
    /\ LET a == get(req[w].id)
           kind == req[w].status
           mail == send_email(mp)
           sms == send_sms(sp)
       IN /\ outbox' = outbox (+) Call("email", kind, a, a.email)
                              (+) Call("sms", kind, a, a.phone)
          /\ Respond(req[w].op, "none", a.id, Outcome(mail, sms),
                     mail, sms, <<>>)
    /\ req' = [req EXCEPT ![w] = Idle]
    /\ UNCHANGED <<applicants, now, session>>

\* The tail of register / approve_applicant / reject_applicant after
\* db.session.commit(): the row is reloaded (commit expires it), the email
\* is attempted, the SMS is attempted if the row has a phone.
Notify(w, mp, sp) ==
    /\ req[w].pc = "notify"
    /\ LET a == get(req[w].id)
           kind == req[w].status
           mail == send_email(mp)
           sms == IF Falsy(a.phone) THEN "none" ELSE send_sms(sp)
       IN /\ outbox' = outbox (+) Call("email", kind, a, a.email)
                              (+) (IF Falsy(a.phone) THEN EmptyBag
                                   ELSE Call("sms", kind, a, a.phone))
          /\ Respond(req[w].op, "none", a.id, Outcome(mail, sms),
                     mail, sms, <<>>)
    /\ req' = [req EXCEPT ![w] = Idle]
    /\ UNCHANGED <<applicants, now, session>>

\* ----------------------------------------------------------- admin gate
\* admin_login with the password left unchecked
admin_login_user_only(s, username, password) ==
    /\ IF username = ADMIN_USERNAME
       THEN /\ session' = [session EXCEPT ![s] = TRUE]
            /\ Respond("login", s, 0, "logged_in", "none", "none", <<>>)
       ELSE /\ session' = session
            /\ Respond("login", s, 0, "invalid_credentials", "none", "none", <<>>)
    /\ UNCHANGED <<applicants, now, req, outbox>>

\* admin_login with the flag kept process-wide: every session is let in
admin_login_global(s, username, password) ==
    /\ IF username = ADMIN_USERNAME /\ password = ADMIN_PASSWORD
       THEN /\ session' = [t \in Sessions |-> TRUE]
            /\ Respond("login", s, 0, "logged_in", "none", "none", <<>>)
       ELSE /\ session' = session
            /\ Respond("login", s, 0, "invalid_credentials", "none", "none", <<>>)
    /\ UNCHANGED <<applicants, now, req, outbox>>

\* POST /admin/login
admin_login(s, username, password) ==
    /\ IF username = ADMIN_USERNAME /\ password = ADMIN_PASSWORD
       THEN /\ session' = [session EXCEPT ![s] = TRUE]
            /\ Respond("login", s, 0, "logged_in", "none", "none", <<>>)
       ELSE /\ session' = session
            /\ Respond("login", s, 0, "invalid_credentials", "none", "none", <<>>)
    /\ UNCHANGED <<applicants, now, req, outbox>>

\* GET /admin/logout
admin_logout(s) ==
    /\ session' = [session EXCEPT ![s] = FALSE]
    /\ Respond("logout", s, 0, "logged_out", "none", "none", <<>>)
    /\ UNCHANGED <<applicants, now, req, outbox>>

\* admin_required with the session check left out
admin_required_open(s) == TRUE

\* admin_required: does the wrapped view run
admin_required(s) == session[s]

\* the redirect to the login page admin_required answers with
Refused(s, op) ==
    /\ ~admin_required(s)
    /\ Respond(op, s, 0, "unauthorized", "none", "none", <<>>)
    /\ UNCHANGED <<applicants, now, session, req, outbox>>

\* ------------------------------------------------------ approve / reject
\* NotFound with the miss swallowed: the usual redirect is returned
NotFound_swallowed(s, op, id) ==
    /\ session[s]
    /\ id \notin Ids
    /\ Respond(op, s, id, "success", "none", "none", <<>>)
    /\ UNCHANGED <<applicants, now, session, req, outbox>>

\* get_or_404 on a missing primary key
NotFound(s, op, id) ==
    /\ admin_required(s)
    /\ id \notin Ids
    /\ Respond(op, s, id, "not_found", "none", "none", <<>>)
    /\ UNCHANGED <<applicants, now, session, req, outbox>>

\* get_or_404 found the row; status and admin_note are then set on the
\* loaded object (the UPDATE is sent by Flush)
Load(w, s, op, status, id, note) ==
    /\ req[w].pc = "idle"
    /\ admin_required(s)
    /\ id \in Ids
    /\ Room
    /\ req' = [req EXCEPT ![w] =
                  [op |-> op, pc |-> "commit", sess |-> s, id |-> id,
                   status |-> status, note |-> note,
                   loaded |-> <<get(id).status, get(id).admin_note>>]]
    /\ resp' = NoResp
    /\ UNCHANGED <<applicants, now, session, outbox>>

\* Flushed with created_at rewritten by the UPDATE as well
Flushed_touch(row, r) ==
    [row EXCEPT !.status = IF r.status # r.loaded[1] THEN r.status ELSE @,
                !.admin_note = IF r.note # r.loaded[2] THEN r.note ELSE @,
                !.created_at = 0]

\* The row after the UPDATE db.session.commit() sends: it sets the columns
\* whose new value differs from the value loaded
Flushed(row, r) ==
    [row EXCEPT !.status = IF r.status # r.loaded[1] THEN r.status ELSE @,
                !.admin_note = IF r.note # r.loaded[2] THEN r.note ELSE @]

\* db.session.commit() of approve_applicant / reject_applicant
Flush(w) ==
    /\ req[w].pc = "commit"
    /\ applicants' = [applicants EXCEPT ![Row(req[w].id)] = Flushed(@, req[w])]
    /\ req' = [req EXCEPT ![w] = [Idle EXCEPT !.op = req[w].op, !.pc = "notify",
                                              !.id = req[w].id,
                                              !.status = req[w].status]]
    /\ resp' = NoResp
    /\ UNCHANGED <<now, session, outbox>>

\* POST /admin/approve/<id> up to the assignments to the loaded row
approve_applicant(w, s, id, note) == Load(w, s, "approve", "approved", id, note)

\* POST /admin/reject/<id> up to the assignments to the loaded row
reject_applicant(w, s, id, note) == Load(w, s, "reject", "rejected", id, note)

\* ------------------------------------------------------------ read views
\* count with the status filter dropped
count_unfiltered(status) == Len(applicants)

\* Applicant.query.filter_by(status=...).count()
count(status) ==
    Cardinality({i \in 1..Len(applicants) : applicants[i].status = status})

\* GET /admin
admin_dashboard(s) ==
    \/ Refused(s, "dashboard")
    \/ /\ admin_required(s)
       /\ Respond("dashboard", s, 0, "ok", "none", "none",
                  <<Len(applicants), count("pending"), count("approved"),
                    count("rejected")>>)
       /\ UNCHANGED <<applicants, now, session, req, outbox>>

\* the query without its filter_by: every row
filter_by_nothing(status) == {i \in 1..Len(applicants) : status = status}

\* filter_by(status=...): the rows (by position) with that status
filter_by(status) == {i \in 1..Len(applicants) : applicants[i].status = status}

\* order_by(Applicant.created_at.asc() / .desc()).all() over the rows S:
\* their identifiers, earliest (latest, if desc) created first
RECURSIVE order_by(_, _)
order_by(S, desc) ==
    IF S = {} THEN <<>>
    ELSE LET i == CHOOSE k \in S : \A j \in S :
                     IF desc
                     THEN applicants[k].created_at >= applicants[j].created_at
                     ELSE applicants[k].created_at <= applicants[j].created_at
         IN <<applicants[i].id>> \o order_by(S \ {i}, desc)

\* GET /admin/pending
admin_pending_list(s) ==
    \/ Refused(s, "pending")
    \/ /\ admin_required(s)
       /\ Respond("pending", s, 0, "ok", "none", "none",
                  order_by(filter_by("pending"), FALSE))
       /\ UNCHANGED <<applicants, now, session, req, outbox>>

\* GET /admin/all
admin_all(s) ==
    \/ Refused(s, "all")
    \/ /\ admin_required(s)
       /\ Respond("all", s, 0, "ok", "none", "none",
                  order_by(1..Len(applicants), TRUE))
       /\ UNCHANGED <<applicants, now, session, req, outbox>>

\* identifiers a request may name: every stored one and one that is not
RequestIds == 1..(Len(applicants) + 1)

Next ==
    \/ \E full_name \in NameInputs, email \in EmailInputs :
          RegisterInvalid(full_name, email)
    \/ \E w \in Workers, form \in Forms : RegisterCommit(w, form)
    \/ \E w \in Workers, mp \in Providers, sp \in Providers : Notify(w, mp, sp)
    \/ \E s \in Sessions, u \in Usernames, p \in Passwords : admin_login(s, u, p)
    \/ \E s \in Sessions : admin_logout(s)
    \/ \E s \in Sessions, op \in {"approve", "reject"} : Refused(s, op)
    \/ \E s \in Sessions, op \in {"approve", "reject"}, id \in RequestIds :
          NotFound(s, op, id)
    \/ \E w \in Workers, s \in Sessions, id \in RequestIds, note \in NoteInputs :
          approve_applicant(w, s, id, note)
    \/ \E w \in Workers, s \in Sessions, id \in RequestIds, note \in NoteInputs :
          reject_applicant(w, s, id, note)
    \/ \E w \in Workers : Flush(w)
    \/ \E s \in Sessions : admin_dashboard(s)
    \/ \E s \in Sessions : admin_pending_list(s)
    \/ \E s \in Sessions : admin_all(s)

Spec == Init /\ [][Next]_vars

\* ------------------------------------------------- after a restart
\* The table is persistent: the process may start on a database that
\* earlier registrations filled.  Here it starts on three pending rows, a
\* full table under MaxApplicants, so no registration is admitted, and it
\* serves the administrator's requests one at a time (one request slot),
\* so that the four count queries of the dashboard read one table.
Persisted ==
    LET form(phone) == [full_name |-> <<" ", "a">>, email |-> <<"e", " ">>,
                        phone |-> phone, course |-> <<"c", " ">>,
                        address |-> None]
    IN <<Applicant(form(<<"5", " ">>), 1, 1), Applicant(form(None), 2, 2),
         Applicant(form(None), 3, 3)>>

Serial == {"w1"}

InitRestarted ==
    /\ applicants = Persisted
    /\ now = Len(Persisted)
    /\ session = [s \in Sessions |-> FALSE]
    /\ req = [w \in Workers |-> Idle]
    /\ outbox = EmptyBag
    /\ resp = NoResp

NextRestarted ==
    \/ \E w \in Serial, mp \in Providers, sp \in Providers : Notify(w, mp, sp)
    \/ \E s \in Sessions, u \in Usernames, p \in Passwords : admin_login(s, u, p)
    \/ \E s \in Sessions : admin_logout(s)
    \/ \E s \in Sessions, op \in {"approve", "reject"} : Refused(s, op)
    \/ \E s \in Sessions, op \in {"approve", "reject"}, id \in RequestIds :
          NotFound(s, op, id)
    \/ \E w \in Serial, s \in Sessions, id \in RequestIds, note \in NoteInputs :
          approve_applicant(w, s, id, note)
    \/ \E w \in Serial, s \in Sessions, id \in RequestIds, note \in NoteInputs :
          reject_applicant(w, s, id, note)
    \/ \E w \in Serial : Flush(w)
    \/ \E s \in Sessions : admin_dashboard(s)

SpecRestarted == InitRestarted /\ [][NextRestarted]_vars

\* ================================================================ claims
Decisions == {"approve", "reject"}
AdminOps == {"approve", "reject", "dashboard"}
Rows == 1..Len(applicants)

\* slot w takes the step named
Loads(w) == req[w].pc = "idle" /\ req'[w].pc = "commit"
Commits(w) == req[w].pc = "commit" /\ req'[w].pc = "notify"

\* C1: once an applicant is approved or rejected, no step changes its
\* status.
C1_DecidedIsTerminal ==
    [][\A i \in Rows : applicants[i].status # "pending"
            => applicants'[i].status = applicants[i].status]_vars

\* C2: an approve or reject is accepted only for a row that is pending:
\* after one has succeeded on an identifier, a further one is turned down
\* and never goes on to its commit.
C2_SecondTransitionFails ==
    [][\A w \in Workers : Loads(w) => get(req'[w].id).status = "pending"]_vars

\* C3: an approve, reject or dashboard call of a session that is not
\* authenticated is answered "unauthorized", and that answer comes with no
\* change to any row and no notification; only an authenticated session
\* gets a decision request admitted.
C3_UnauthenticatedRefused ==
    [][/\ (resp'.op \in AdminOps /\ resp'.sess \in Sessions
              /\ ~session[resp'.sess])
          => resp'.result = "unauthorized"
       /\ resp'.result = "unauthorized"
          => /\ ~session[resp'.sess]
             /\ UNCHANGED <<applicants, outbox, req>>
       /\ \A w \in Workers : Loads(w) => session[req'[w].sess]]_vars

C3_Witness ==
    /\ resp.op = "approve" /\ resp.result = "unauthorized"
    /\ \E i \in Rows : applicants[i].status = "pending"
    /\ \E s \in Sessions : session[s]

\* C4: a request that read the row as pending commits only if the row is
\* still pending, so of two simultaneous approve / reject calls on one
\* pending applicant only one succeeds.
C4_ConcurrentDecisionsSerialized ==
    [][\A w \in Workers :
          (Commits(w) /\ req[w].loaded[1] = "pending")
          => get(req[w].id).status = "pending"]_vars

\* C5: a registration whose name or email is empty or absent is answered
\* with the validation error and never stores a row; that answer comes
\* with no change to the table and no notification.
C5_InvalidSubmitCreatesNothing ==
    /\ [](\A form \in Forms :
             (Falsy(form.full_name) \/ Falsy(form.email))
             => /\ \A w \in Workers : ~ENABLED RegisterCommit(w, form)
                /\ ENABLED RegisterInvalid(form.full_name, form.email))
    /\ [][resp'.result = "validation_error"
            => resp'.op = "submit" /\ UNCHANGED <<applicants, outbox, req>>]_vars

C5_Witness ==
    /\ resp.op = "submit" /\ resp.result = "validation_error"
    /\ applicants # <<>>

\* C6: every stored row has a full name and an email that are non-empty
\* after trimming.
C6_StoredNameAndEmailNonBlank ==
    \A i \in Rows : /\ strip(applicants[i].full_name) # <<>>
                    /\ strip(applicants[i].email) # <<>>

\* C7: the identifiers of the stored rows are pairwise distinct, and every
\* registration that stores a row appends one row with status pending, no
\* admin note and an identifier no row had before, leaving the rows before
\* it as they were.
C7_FreshPendingRecord ==
    /\ [](\A i, j \in Rows : applicants[i].id = applicants[j].id => i = j)
    /\ [][Len(applicants') # Len(applicants)
            => /\ Len(applicants') = Len(applicants) + 1
               /\ SubSeq(applicants', 1, Len(applicants)) = applicants
               /\ LET a == applicants'[Len(applicants')]
                  IN /\ a.status = "pending"
                     /\ a.admin_note = None
                     /\ a.id \notin Ids]_vars

C7_Witness ==
    /\ Len(applicants) = 2
    /\ applicants[1].status # "pending"
    /\ applicants[2].status = "pending"

\* C8: whatever send_email and send_sms come back with, the request that
\* called them answers "success" and the rows are as the commit left them.
C8_NotificationFailureIsSwallowed ==
    [][resp'.mail # "none"
         => /\ resp'.op \in {"submit"} \cup Decisions
            /\ resp'.result = "success"
            /\ applicants' = applicants
            /\ resp'.id \in Ids]_vars

C8_Witness ==
    /\ resp.op = "approve" /\ resp.result = "success"
    /\ resp.mail = "failed" /\ resp.sms = "failed"
    /\ get(resp.id).status = "approved"

\* C9: an approve or reject of an authenticated session on an identifier
\* that no row has is answered "not found", changes no row and sends no
\* notification; a decision request is admitted only for a stored row.
C9_MissingIdIsNotFound ==
    [][/\ (resp'.op \in Decisions /\ resp'.sess \in Sessions
              /\ session[resp'.sess] /\ resp'.id \notin Ids)
          => resp'.result = "not_found"
       /\ resp'.result = "not_found"
          => /\ resp'.id \notin Ids
             /\ UNCHANGED <<applicants, outbox, req>>
       /\ \A w \in Workers : Loads(w) => req'[w].id \in Ids]_vars

C9_Witness ==
    /\ resp.op = "reject" /\ resp.result = "not_found"
    /\ applicants # <<>>

\* C10: in every step in which a row's admin note changes, that row's
\* status goes from pending to approved or rejected, and the step is the
\* commit of a request that passed the admin gate.
C10_NoteOnlyWithTransition ==
    [][\A i \in Rows :
          applicants'[i].admin_note # applicants[i].admin_note
          => /\ applicants[i].status = "pending"
             /\ applicants'[i].status \in {"approved", "rejected"}
             /\ \E w \in Workers : /\ Commits(w)
                                   /\ req[w].id = applicants[i].id
                                   /\ req[w].sess \in Sessions]_vars

\* C11: the commit of an approve or reject of identifier i leaves the table
\* as long as it was, leaves every row with another identifier as it was,
\* and changes in row i nothing but status and admin note; the steps of the
\* request after its commit change no row.
C11_DecisionFrame ==
    [][\A w \in Workers :
          /\ Commits(w)
             => /\ Len(applicants') = Len(applicants)
                /\ \A i \in Rows :
                      /\ applicants[i].id # req[w].id
                         => applicants'[i] = applicants[i]
                      /\ \A f \in {"id", "created_at", "full_name", "email",
                                   "phone", "course", "address"} :
                            applicants'[i][f] = applicants[i][f]
          /\ (req[w].op \in Decisions /\ req[w].pc = "notify"
                 /\ req'[w].pc = "idle")
             => applicants' = applicants]_vars

C11_Witness ==
    /\ Len(applicants) = 2
    /\ resp.op = "reject" /\ resp.result = "success" /\ resp.id = 2
    /\ applicants[2].status = "rejected"
    /\ applicants[2].admin_note = <<"o", "k">>
    /\ applicants[1].status = "pending"

\* the number of rows of a table that have the status
RECURSIVE Tally(_, _)
Tally(rows, status) ==
    IF rows = <<>> THEN 0
    ELSE (IF Head(rows).status = status THEN 1 ELSE 0) + Tally(Tail(rows), status)

C13_AuthenticatedIffLoggedIn ==
    /\ [][\A s \in Sessions :
             /\ (~session[s] /\ session'[s])
                => (resp'.op = "login" /\ resp'.sess = s
                      /\ resp'.result = "logged_in")
             /\ (session[s] /\ ~session'[s])
                => (resp'.op = "logout" /\ resp'.sess = s)
             /\ (resp'.op = "logout" /\ resp'.sess = s) => ~session'[s]
             /\ (resp'.op = "login" /\ resp'.sess = s)
                => \/ resp'.result = "logged_in" /\ session'[s]
                   \/ /\ resp'.result = "invalid_credentials"
                      /\ session'[s] = session[s]]_vars
    /\ [](\A s \in Sessions :
             /\ \A u \in Usernames, p \in Passwords :
                   ENABLED (admin_login(s, u, p) /\ resp'.result = "logged_in")
                   <=> (u = ADMIN_USERNAME /\ p = ADMIN_PASSWORD)
             /\ \A op \in AdminOps : ENABLED Refused(s, op) <=> ~session[s])

C13_Witness ==
    /\ resp.op = "approve" /\ resp.result = "unauthorized"
    /\ \E i \in Rows : applicants[i].status = "approved"
    /\ \A s \in Sessions : ~session[s]

\* the kind of notification an operation sends
KindOf(op) ==
    CASE op = "submit" -> "received"
      [] op = "approve" -> "approved"
      [] op = "reject" -> "rejected"

\* C14: the outbox changes only in the step that ends a submit, approve or
\* reject whose commit is done, and that step answers "success"; it adds
\* exactly one email of the operation's kind to the row's email address,
\* and one SMS of that kind to the row's phone if and only if the row has
\* one; every answer "success" comes with these sends, no other answer
\* comes with any.
C14_OneNotificationPerSuccess ==
    [][/\ outbox' # outbox
          => \E w \in Workers :
               /\ req[w].pc = "notify" /\ req'[w].pc = "idle"
               /\ req[w].id \in Ids
               /\ resp'.result = "success" /\ resp'.op = req[w].op
               /\ LET a == get(req[w].id)
                      k == KindOf(req[w].op)
                      email == SetToBag({[channel |-> "email", kind |-> k,
                                          id |-> a.id, to |-> a.email]})
                      sms == SetToBag({[channel |-> "sms", kind |-> k,
                                        id |-> a.id, to |-> a.phone]})
                  IN outbox' = IF a.phone \in {None, <<>>}
                               THEN outbox (+) email
                               ELSE outbox (+) email (+) sms
       /\ resp'.result = "success" => outbox' # outbox
       /\ \A w \in Workers : (Loads(w) \/ Commits(w)) => outbox' = outbox]_vars

C14_Witness ==
    /\ resp.op = "reject" /\ resp.result = "success"
    /\ ~Falsy(get(resp.id).phone)
    /\ CopiesIn([channel |-> "sms", kind |-> "rejected", id |-> resp.id,
                 to |-> get(resp.id).phone], outbox) = 1
    /\ \E i \in Rows : /\ Falsy(applicants[i].phone)
                       /\ CopiesIn([channel |-> "email", kind |-> "received",
                                    id |-> applicants[i].id,
                                    to |-> applicants[i].email], outbox) = 1

\* the step answers the listing or the dashboard named
Lists(op) == resp'.op = op /\ resp'.result = "ok"

\* C15: the pending listing answers with the identifiers of exactly the
\* pending rows, each once, earliest created first; a row is pending from
\* the step that creates it, stops being pending only in the step that
\* commits an approve or a reject on it, and is never pending again; the
\* step of a pending listing, a listing of all rows or a dashboard changes
\* no row, no session flag, no request in progress and no notification.
C15_PendingListingReadOnly ==
    [][/\ Lists("pending")
          => LET b == resp'.body
             IN /\ {b[k] : k \in 1..Len(b)}
                     = {applicants[i].id : i \in {j \in Rows :
                                      applicants[j].status = "pending"}}
                /\ \A k, l \in 1..Len(b) :
                      k < l => /\ b[k] # b[l]
                               /\ get(b[k]).created_at <= get(b[l]).created_at
       /\ (Lists("pending") \/ Lists("all") \/ Lists("dashboard"))
          => UNCHANGED <<applicants, session, req, outbox, now>>
       /\ \A i \in 1..Len(applicants') :
             IF i \in Rows
             THEN /\ applicants'[i].id = applicants[i].id
                  /\ applicants[i].status # "pending"
                     => applicants'[i].status # "pending"
                  /\ (applicants[i].status = "pending"
                      /\ applicants'[i].status # "pending")
                     => \E w \in Workers : /\ Commits(w)
                                           /\ req[w].op \in Decisions
                                           /\ req[w].id = applicants[i].id
             ELSE applicants'[i].status = "pending"]_vars

C15_Witness ==
    /\ resp.op = "pending" /\ resp.result = "ok"
    /\ Len(applicants) = 2
    /\ applicants[1].status = "rejected"
    /\ resp.body = <<applicants[2].id>>

\* the decision emails attempted so far for the identifier
DecisionMails(id) ==
    {e \in BagToSet(outbox) : /\ e.channel = "email" /\ e.id = id
                              /\ e.kind \in {"approved", "rejected"}}

\* C16: for every applicant at most one decision email has been attempted,
\* so never an "approved" and a "rejected" one both, and while an
\* "approved" ("rejected") email has been attempted for it, its stored
\* status is approved (rejected).
C16_OneDecisionNotification ==
    \A i \in Rows :
        \A e, f \in DecisionMails(applicants[i].id) :
            /\ e = f
            /\ CopiesIn(e, outbox) = 1
            /\ applicants[i].status = e.kind

\* C17: a login or a logout of one session leaves the flag of every other
\* session as it was; and while one session is authenticated and another
\* is not, every approve, reject or dashboard call of the other is
\* refused: none of its decisions can be admitted and no dashboard is
\* shown to it.
C17_SessionsIndependent ==
    /\ [][\A a \in Sessions :
             (resp'.op \in {"login", "logout"} /\ resp'.sess = a)
             => \A b \in Sessions \ {a} : session'[b] = session[b]]_vars
    /\ [](\A a \in Sessions, b \in Sessions :
             (a # b /\ session[a] /\ ~session[b])
             => /\ \A op \in AdminOps : ENABLED Refused(b, op)
                /\ ~ENABLED (admin_dashboard(b) /\ resp'.result = "ok")
                /\ \A w \in Workers, id \in RequestIds, note \in NoteInputs :
                      /\ ~ENABLED approve_applicant(w, b, id, note)
                      /\ ~ENABLED reject_applicant(w, b, id, note))

C17_Witness ==
    /\ resp.op = "dashboard" /\ resp.result = "unauthorized"
    /\ ~session[resp.sess]
    /\ \E a \in Sessions \ {resp.sess} : session[a]
    /\ \E i \in Rows : applicants[i].status = "pending"
====
